---- MODULE Spec2Model ----
(***************************************************************************)
(* State-machine model of the upload handler of src/backend/app.py: the    *)
(* per-file pipeline (validate, stage, probe, resize, encode, arbitrate,   *)
(* assemble, clean up), the helper encoders it calls, and the two          *)
(* directories (INPUT_DIR, OUTPUT_DIR) every request works in.             *)
(*                                                                         *)
(* A file on disk is a record of the facts the handler or its callers can  *)
(* observe: whose upload the pixels come from, byte size, pixel            *)
(* dimensions, EXIF state, container format, the encoder that wrote it and *)
(* whether Pillow can decode it.                                           *)
(*                                                                         *)
(* src/image_pro/backend/app.py is an earlier copy of the same handler     *)
(* (no auto-WebP arbitration, no orientation handling, EXIF always passed  *)
(* to the in-process JPEG encoder); its batch loop, extension check,       *)
(* convert_to handling and preview are the same as modelled here.          *)
(***************************************************************************)
EXTENDS Integers, Sequences, FiniteSets, TLC

VARIABLES disk, job, pc, loc, resp, reply

vars == <<disk, job, pc, loc, resp, reply>>

\* ------------------------------------------------------------------ bounds
\* Largest byte size an encoder output takes in the model.
MaxSize == 10
\* Raw pixel dimensions of every uploaded source (not square).
SrcW == 4
SrcH == 3
\* The width / height a request asks for when it asks for one.
ReqW == 2
ReqH == 5

\* Largest quality a request sends where the quality is varied.
MaxQuality == 100

Sizes == (MaxSize - 2)..MaxSize

\* ------------------------------------------------- constants of the source
\* _safe_int(request.form.get('quality'), 82): the quality of a request that
\* sends none.
DefaultQuality == 82
\* "qmin, qmax = 60, max(60, min(100, quality or 82))"
QMin == 60
QCap == 100
PngQuality == 82

Reqs == {"r1", "r2"}

\* ------------------------------------------------------------ the uploads
\* An upload: filename (stem, extension as sent), EXIF state of the source
\* ("none", "plain": EXIF without a rotating orientation, "rot": EXIF whose
\* orientation tag swaps the axes) and whether the bytes decode as an image.
\* Only JPEG sources carry EXIF here; only one upload is corrupt.
Files ==
    { [stem |-> "a", ext |-> ".jpg",  exif |-> "rot",   ok |-> TRUE],
      [stem |-> "a", ext |-> ".JPG",  exif |-> "plain", ok |-> TRUE],
      [stem |-> "a", ext |-> ".png",  exif |-> "none",  ok |-> TRUE],
      [stem |-> "a", ext |-> ".webp", exif |-> "none",  ok |-> TRUE],
      [stem |-> "a", ext |-> ".bmp",  exif |-> "none",  ok |-> TRUE],
      [stem |-> "a", ext |-> ".png",  exif |-> "none",  ok |-> FALSE] }

\* The batches of a request: no file, one file, or two files.
Batches ==
    { <<>> } \cup { <<f>> : f \in Files } \cup { <<f, g>> : f \in Files, g \in Files }

\* The form fields of a request as parsed at the top of upload().  A missing
\* width/height is None in the code and 0 here: both are falsy where the code
\* tests them ("width or orig_w", "if width or height").  quality is the
\* form's value, read only where optimize is set; these requests send none.
Options ==
    [ width : {0, ReqW}, height : {0, ReqH}, optimize : BOOLEAN,
      convert_to : {"", "webp"}, keep_meta : BOOLEAN, autowebp : BOOLEAN,
      quality : {DefaultQuality} ]

Jobs == [ files : Batches, opt : Options ]

\* ---------------------------------------------------------------- helpers
\* str.lower() on the extensions the model sends.
Lower(e) ==
    CASE e = ".JPG"  -> ".jpg"
      [] e = ".Jpeg" -> ".jpeg"
      [] e = ".PNG"  -> ".png"
      [] e = ".GIF"  -> ".gif"
      [] e = ".TIF"  -> ".tif"
      [] e = ".BMP"  -> ".bmp"
      [] OTHER -> e

AllowedExt == {".jpg", ".jpeg", ".png", ".gif", ".tiff", ".tif", ".webp"}

Family(e) ==
    IF e \in {".jpg", ".jpeg"} THEN "JPEG" ELSE IF e = ".png" THEN "PNG" ELSE "NONE"

\* Python's "a or b" on integers.
PyOr(a, b) == IF a # 0 THEN a ELSE b

Min(a, b) == IF a <= b THEN a ELSE b
Max(a, b) == IF a >= b THEN a ELSE b

InPath(f)  == [dir |-> "in",  stem |-> f.stem, ext |-> f.ext, suf |-> ""]
OutPath(f) == [dir |-> "out", stem |-> f.stem, ext |-> f.ext, suf |-> ""]

\* os.path.splitext(p)[0] + ".webp"
WebpPath(p) == [p EXCEPT !.ext = ".webp"]
\* out_path + ".pre.jpg", out_path + ".tmp.png"
PrePath(p) == [p EXCEPT !.suf = ".pre.jpg"]
TmpPath(p) == [p EXCEPT !.suf = ".tmp.png"]

Exists(d, p) == p \in DOMAIN d

WriteFile(d, p, c) == [q \in (DOMAIN d) \cup {p} |-> IF q = p THEN c ELSE d[q]]

RemoveFile(d, p) == [q \in (DOMAIN d) \ {p} |-> d[q]]

\* Image.open(p) succeeds.
Readable(d, p) == Exists(d, p) /\ d[p].ok

\* ImageOps.exif_transpose: a rotating orientation tag is baked into the
\* pixels (the axes swap) and removed from the EXIF block.
Transposed(c) ==
    IF c.exif = "rot" THEN [c EXCEPT !.w = c.h, !.h = c.w, !.exif = "plain"] ELSE c

\* The format Pillow writes for a path when none is given: by extension.
FmtOfExt(e) ==
    CASE Lower(e) \in {".jpg", ".jpeg"} -> "JPEG"
      [] Lower(e) = ".png"  -> "PNG"
      [] Lower(e) = ".webp" -> "WEBP"
      [] OTHER -> "OTHER"

\* The bytes an upload arrives with.
Upload(r, k, f) ==
    [by |-> <<r, k>>, size |-> MaxSize, w |-> SrcW, h |-> SrcH, exif |-> f.exif,
     fmt |-> FmtOfExt(f.ext), enc |-> "upload", ok |-> f.ok]

\* A file an encoder writes from the pixels of c.
Encoded(c, enc, fmt, size, exif) ==
    [c EXCEPT !.size = size, !.exif = exif, !.fmt = fmt, !.enc = enc, !.ok = TRUE]

NoPath == [dir |-> "", stem |-> "", ext |-> "", suf |-> ""]

NoArb == [both |-> FALSE, S |-> 0, C |-> 0, pick |-> FALSE, ran |-> FALSE]

\* The locals of upload() for the file being processed.  tried is history:
\* the encoder calls made for this file so far, in order, each with what it
\* reported.
Loc0 ==
    [i |-> 1, outp |-> NoPath, orig_w |-> 0, orig_h |-> 0, original_size |-> 0,
     target_w |-> 0, target_h |-> 0, ok |-> FALSE, dest |-> NoPath,
     after |-> "", cur |-> NoPath, arb |-> NoArb, tried |-> <<>>,
     qmin |-> 0, qmax |-> 0]

NoReply == [code |-> 0, results |-> <<>>]

\* ------------------------------------------------------------------- Init
\* The state after the module is loaded: both directories exist and are
\* empty, and each request that will run has been received.
InitFor(rs, js) ==
    /\ disk = [p \in {} |-> 0]
    /\ job \in [rs -> js]
    /\ pc = [r \in rs |-> "recv"]
    /\ loc = [r \in rs |-> Loc0]
    /\ resp = [r \in rs |-> <<>>]
    /\ reply = [r \in rs |-> NoReply]

Init == InitFor({"r1"}, Jobs)

\* ------------------------------------------------------- request accessors
Opt(r) == job[r].opt
Uf(r)  == job[r].files[loc[r].i]
Ext(r) == Lower(Uf(r).ext)
Fmt(r) == Family(Ext(r))
In(r)  == InPath(Uf(r))

Goto(r, l) == pc' = [pc EXCEPT ![r] = l]

\* return jsonify({"error": ...}), code
Return(r, code, results) ==
    /\ reply' = [reply EXCEPT ![r] = [code |-> code, results |-> results]]
    /\ Goto(r, "done")

\* An exception inside the try block: caught at the end of upload(), HTTP 500.
Raise(r) ==
    /\ Return(r, 500, <<>>)
    /\ UNCHANGED <<disk, job, loc, resp>>

\* ------------------------------------------------- upload(): the batch loop
\* "if not files: return ... 400", otherwise enter the loop over the files.
Receive(r) ==
    /\ pc[r] = "recv"
    /\ IF Len(job[r].files) = 0
       THEN Return(r, 400, <<>>)
       ELSE Goto(r, "loop") /\ UNCHANGED reply
    /\ UNCHANGED <<disk, job, loc, resp>>

\* The extension check without the lower-casing.
ExtAllowedAsSent(e) == e \in AllowedExt

\* The extension check at the head of the loop body.
ExtAllowed(e) == Lower(e) \in AllowedExt

\* A disallowed extension: the whole request returns 400 with an error body;
\* the results gathered so far are dropped with the local list.
Reject(r) ==
    /\ pc[r] = "loop"
    /\ loc[r].i <= Len(job[r].files)
    /\ ~ExtAllowed(Uf(r).ext)
    /\ Return(r, 400, <<>>)
    /\ UNCHANGED <<disk, job, loc, resp>>

\* uf.save(in_path): the upload is staged in INPUT_DIR under its own name.
Stage(r) ==
    /\ pc[r] = "loop"
    /\ loc[r].i <= Len(job[r].files)
    /\ ExtAllowed(Uf(r).ext)
    /\ disk' = WriteFile(disk, In(r), Upload(r, loc[r].i, Uf(r)))
    /\ loc' = [loc EXCEPT ![r].outp = OutPath(Uf(r)), ![r].tried = <<>>]
    /\ Goto(r, "info")
    /\ UNCHANGED <<job, resp, reply>>

\* The loop is over: return jsonify(resp), 200.
ReturnOk(r) ==
    /\ pc[r] = "loop"
    /\ loc[r].i > Len(job[r].files)
    /\ Return(r, 200, resp[r])
    /\ UNCHANGED <<disk, job, loc, resp>>

\* "Basic info": img.size of the staged file (the raw size, before any
\* orientation is applied), its byte size, and the target dimensions.
Info(r) ==
    /\ pc[r] = "info"
    /\ IF Readable(disk, In(r))
       THEN LET c == disk[In(r)]
                o == Opt(r)
            IN  /\ loc' = [loc EXCEPT ![r].orig_w = c.w, ![r].orig_h = c.h,
                                      ![r].original_size = c.size,
                                      ![r].target_w = PyOr(o.width, c.w),
                                      ![r].target_h = PyOr(o.height, c.h)]
                /\ Goto(r, IF o.width # 0 \/ o.height # 0 THEN "resize" ELSE "encode")
                /\ UNCHANGED <<disk, job, resp, reply>>
       ELSE Raise(r)

\* The file the resize block writes back over the staged input: orientation
\* applied, resized to the target, RGB and without EXIF for a JPEG name.
Resized(c, tw, th, ext, size) ==
    LET t == Transposed(c)
    IN  [t EXCEPT !.w = tw, !.h = th, !.size = size, !.enc = "resize",
                  !.fmt = FmtOfExt(ext),
                  !.exif = IF Family(Lower(ext)) = "JPEG" THEN "none" ELSE t.exif]

Resize(r) ==
    /\ pc[r] = "resize"
    /\ IF Readable(disk, In(r))
       THEN /\ \E s \in Sizes :
                 disk' = WriteFile(disk, In(r),
                            Resized(disk[In(r)], loc[r].target_w, loc[r].target_h,
                                    Uf(r).ext, s))
            /\ Goto(r, "encode")
            /\ UNCHANGED <<job, loc, resp, reply>>
       ELSE Raise(r)
\* The selection with the PNG family tested before the WebP override.
BranchPngFirst(o, fam) ==
    IF ~o.optimize THEN "plain"
    ELSE IF fam = "PNG" THEN "png"
    ELSE IF o.convert_to = "webp" THEN "webp"
    ELSE IF fam = "JPEG" THEN "jpeg"
    ELSE "other"

\* ------------------------------------------------- the strategy selection
\* The nested conditionals of upload() after the family is determined: which
\* branch encodes the file.  convert_to is consulted only under optimize.
Branch(o, fam) ==
    IF ~o.optimize THEN "plain"
    ELSE IF o.convert_to = "webp" THEN "webp"
    ELSE IF fam = "PNG" THEN "png"
    ELSE IF fam = "JPEG" THEN "jpeg"
    ELSE "other"

AtBranch(r, b) == pc[r] = "encode" /\ Branch(Opt(r), Fmt(r)) = b

\* ------------------------------------------------------- external tools
\* have_tool(name) looks the PATH up at every call and run(cmd) turns a
\* missing or failing tool into False: whether a tool is there, and whether
\* its run succeeds, is the environment's choice at each call.  Where the
\* code asks have_tool, the model has one action for the tool being there
\* (its run succeeding or not) and one for the in-process path.

\* ----------------------------------------------------------- encode_webp
\* Every convert_to == "webp" branch: out_path becomes <stem>.webp and
\* encode_webp is called; its return value is not looked at.
WebpOverride(r) ==
    /\ AtBranch(r, "webp")
    /\ loc' = [loc EXCEPT ![r].outp = WebpPath(loc[r].outp),
                          ![r].dest = WebpPath(loc[r].outp),
                          ![r].after = "finish"]
    /\ Goto(r, "webp")
    /\ UNCHANGED <<disk, job, resp, reply>>

\* What run(["cwebp", ...]) leaves on disk: the output when the tool exits 0
\* and could read its input, nothing otherwise.
CwebpEffect(d, in, out, ok, size) ==
    IF ok /\ Readable(d, in)
    THEN WriteFile(d, out, Encoded(d[in], "cwebp", "WEBP", size, "none"))
    ELSE d

\* encode_webp with cwebp on the PATH: run() swallows the tool's failure.
CwebpRun(r) ==
    /\ pc[r] = "webp"
    /\ \E ok \in BOOLEAN, s \in Sizes :
          disk' = CwebpEffect(disk, In(r), loc[r].dest, ok, s)
    /\ Goto(r, loc[r].after)
    /\ UNCHANGED <<job, loc, resp, reply>>

\* encode_webp without cwebp: Pillow opens the input and saves WebP.
PillowWebp(r) ==
    /\ pc[r] = "webp"
    /\ IF Readable(disk, In(r))
       THEN /\ \E s \in Sizes :
                 disk' = WriteFile(disk, loc[r].dest,
                            Encoded(disk[In(r)], "pillow_webp", "WEBP", s, "none"))
            /\ Goto(r, loc[r].after)
            /\ UNCHANGED <<job, loc, resp, reply>>
       ELSE Raise(r)

\* The locals after one more encoder call is on record.
Tried(r, what) == [loc EXCEPT ![r].tried = Append(@, what)]

\* ------------------------------------------------------------ PNG branch
\* "qmin, qmax = 60, max(60, min(100, quality or 82))": the window that
\* compress_png_quantize hands to pngquant as --quality={qmin}-{qmax}.
QMax(quality) == Max(QMin, Min(QCap, PyOr(quality, PngQuality)))

Window(r, l) == [l EXCEPT ![r].qmin = QMin, ![r].qmax = QMax(Opt(r).quality)]

\* compress_png_quantize, pngquant on the PATH: run pngquant into
\* out_path + ".tmp.png"; a failure returns False and upload() goes on to
\* compress_png_lossless.
PngquantRun(r) ==
    /\ AtBranch(r, "png")
    /\ \E ok \in BOOLEAN, s \in Sizes :
          IF ok /\ Readable(disk, In(r))
          THEN /\ disk' = WriteFile(disk, TmpPath(loc[r].outp),
                             Encoded(disk[In(r)], "pngquant", "PNG", s, "none"))
               /\ loc' = Window(r, Tried(r, "pngquant:ok"))
               /\ Goto(r, "png_oxi")
          ELSE /\ disk' = disk
               /\ loc' = Window(r, Tried(r, "pngquant:fail"))
               /\ Goto(r, "png_lossless")
    /\ UNCHANGED <<job, resp, reply>>

\* What the best-effort oxipng pass does to the file it is given: rewrites it
\* in place, never larger, when the tool is there and succeeds.
OxipngEffect(d, p, ran, size) ==
    IF ran /\ Exists(d, p) /\ size <= d[p].size
    THEN WriteFile(d, p, [d[p] EXCEPT !.size = size])
    ELSE d

\* compress_png_quantize: "if have_tool('oxipng'): run([...tmp])".
OxipngTmp(r) ==
    /\ pc[r] = "png_oxi"
    /\ \E ran \in BOOLEAN, s \in Sizes :
          disk' = OxipngEffect(disk, TmpPath(loc[r].outp), ran, s)
    /\ Goto(r, "png_move")
    /\ UNCHANGED <<job, loc, resp, reply>>

\* compress_png_quantize: shutil.move(tmp, out_path).
MoveTmp(r) ==
    /\ pc[r] = "png_move"
    /\ LET tmp == TmpPath(loc[r].outp)
       IN  IF Exists(disk, tmp)
           THEN /\ disk' = WriteFile(RemoveFile(disk, tmp), loc[r].outp, disk[tmp])
                /\ Goto(r, "finish")
                /\ UNCHANGED <<job, loc, resp, reply>>
           ELSE Raise(r)

\* compress_png_lossless quantizing in place of copying.
LosslessCopyQuantized(r) ==
    /\ pc[r] = "png_lossless"
    /\ IF Exists(disk, In(r))
       THEN /\ \E s \in Sizes :
                 disk' = WriteFile(disk, loc[r].outp,
                            Encoded(disk[In(r)], "pillow_quant", "PNG", s, "none"))
            /\ loc' = Tried(r, "lossless")
            /\ Goto(r, "png_lossless_oxi")
            /\ UNCHANGED <<job, resp, reply>>
       ELSE Raise(r)

\* compress_png_lossless: shutil.copy2(in_path, out_path).
LosslessCopy(r) ==
    /\ pc[r] = "png_lossless"
    /\ IF Exists(disk, In(r))
       THEN /\ disk' = WriteFile(disk, loc[r].outp, [disk[In(r)] EXCEPT !.enc = "copy"])
            /\ loc' = Tried(r, "lossless")
            /\ Goto(r, "png_lossless_oxi")
            /\ UNCHANGED <<job, resp, reply>>
       ELSE Raise(r)

\* compress_png_lossless: the oxipng pass over out_path; its result is not
\* looked at by upload().
OxipngOut(r) ==
    /\ pc[r] = "png_lossless_oxi"
    /\ \E ran \in BOOLEAN, s \in Sizes :
          disk' = OxipngEffect(disk, loc[r].outp, ran, s)
    /\ Goto(r, "finish")
    /\ UNCHANGED <<job, loc, resp, reply>>

\* pngquant not on the PATH: Pillow converts to RGBA, quantizes with
\* MEDIANCUT and saves out_path.  Pillow's Image.quantize raises ValueError
\* for an RGBA image with a method other than FASTOCTREE / LIBIMAGEQUANT in
\* the releases that carry that check, so both outcomes are kept.
PillowQuantize(r) ==
    /\ AtBranch(r, "png")
    /\ \E accepted \in BOOLEAN :
          IF accepted /\ Readable(disk, In(r))
          THEN /\ \E s \in Sizes :
                    disk' = WriteFile(disk, loc[r].outp,
                               Encoded(disk[In(r)], "pillow_quant", "PNG", s, "none"))
               /\ loc' = Window(r, Tried(r, "quantize"))
               /\ Goto(r, "finish")
               /\ UNCHANGED <<job, resp, reply>>
          ELSE Raise(r)

\* ----------------------------------------------------------- JPEG branch
\* Where the JPEG branch goes once out_path holds a JPEG: to the auto-WebP
\* arbitration when asked for, else to the result.
AfterJpeg(r, l) ==
    IF Opt(r).autowebp
    THEN /\ loc' = [l EXCEPT ![r].cur = loc[r].outp,
                             ![r].dest = WebpPath(loc[r].outp),
                             ![r].after = "arb_cmp"]
         /\ Goto(r, "webp")
    ELSE /\ loc' = l
         /\ Goto(r, "finish")

\* encode_jpeg_mozjpeg, first half (cjpeg on the PATH): Pillow applies the
\* orientation and saves the quality-95 intermediate out_path + ".pre.jpg";
\* no exif is passed to save, so the intermediate has none.
MozPre(r) ==
    /\ AtBranch(r, "jpeg")
    /\ IF Readable(disk, In(r))
       THEN /\ \E s \in Sizes :
                 disk' = WriteFile(disk, PrePath(loc[r].outp),
                            Encoded(Transposed(disk[In(r)]), "pre", "JPEG", s, "none"))
            /\ Goto(r, "moz_run")
            /\ UNCHANGED <<job, loc, resp, reply>>
       ELSE Raise(r)

\* What run(["cjpeg", ..., "-outfile", out, tmp]) leaves on disk.
CjpegEffect(d, tmp, out, ok, size) ==
    IF ok /\ Exists(d, tmp)
    THEN WriteFile(d, out, Encoded(d[tmp], "cjpeg", "JPEG", size, d[tmp].exif))
    ELSE d

\* encode_jpeg_mozjpeg: ok = run(cjpeg).
MozRun(r) ==
    /\ pc[r] = "moz_run"
    /\ \E ok \in BOOLEAN, s \in Sizes :
          LET tmp == PrePath(loc[r].outp)
          IN  /\ disk' = CjpegEffect(disk, tmp, loc[r].outp, ok, s)
              /\ loc' = [loc EXCEPT ![r].ok = ok /\ Exists(disk, tmp),
                                     ![r].tried = Append(@, IF ok /\ Exists(disk, tmp)
                                                            THEN "cjpeg:ok"
                                                            ELSE "cjpeg:fail")]
    /\ Goto(r, "moz_rm")
    /\ UNCHANGED <<job, resp, reply>>

\* upload() calling encode_jpeg_pillow whatever encode_jpeg_mozjpeg returned.
MozRmThenPillow(r) ==
    /\ pc[r] = "moz_rm"
    /\ disk' = RemoveFile(disk, PrePath(loc[r].outp))
    /\ Goto(r, "pillow_jpeg") /\ loc' = loc
    /\ UNCHANGED <<job, resp, reply>>

\* encode_jpeg_mozjpeg: "try: os.remove(tmp) except: pass; return ok", and
\* upload()'s "if not ok: encode_jpeg_pillow(...)".
MozRm(r) ==
    /\ pc[r] = "moz_rm"
    /\ disk' = RemoveFile(disk, PrePath(loc[r].outp))
    /\ IF loc[r].ok
       THEN AfterJpeg(r, loc)
       ELSE Goto(r, "pillow_jpeg") /\ loc' = loc
    /\ UNCHANGED <<job, resp, reply>>

\* The EXIF block encode_jpeg_pillow passes to save: im.info's, after
\* exif_transpose, when keep_exif is set and there is one.
PillowExif(c, keep_exif) ==
    IF keep_exif /\ Transposed(c).exif # "none" THEN Transposed(c).exif ELSE "none"

\* encode_jpeg_pillow: called when cjpeg is not on the PATH, or after
\* encode_jpeg_mozjpeg returned False.
PillowJpeg(r) ==
    /\ AtBranch(r, "jpeg") \/ pc[r] = "pillow_jpeg"
    /\ IF Readable(disk, In(r))
       THEN /\ \E s \in Sizes :
                 disk' = WriteFile(disk, loc[r].outp,
                            Encoded(Transposed(disk[In(r)]), "pillow_jpeg", "JPEG", s,
                                    PillowExif(disk[In(r)], Opt(r).keep_meta)))
            /\ AfterJpeg(r, Tried(r, "pillow"))
            /\ UNCHANGED <<job, resp, reply>>
       ELSE Raise(r)
\* The comparison with <= in place of <.
PicksChallengerOrEqual(c, s) == 10 * c <= 9 * s

\* ------------------------------------------- try_webp_and_pick_smaller
\* "os.path.getsize(alt) < os.path.getsize(current_out) * 0.90" on byte
\* counts c and s.  The code multiplies in binary64; for sizes below 10^15 the
\* rounded product is on the same side of every integer as 9s/10 is, and is
\* exactly 9s/10 when that is an integer, so the comparison is this one.
PicksChallenger(c, s) == 10 * c < 9 * s

\* The comparison inside the try block.  A missing file makes getsize raise,
\* and the except clause returns current_out.
ArbCompare(r) ==
    /\ pc[r] = "arb_cmp"
    /\ LET alt == loc[r].dest
           cur == loc[r].cur
       IN  IF Exists(disk, alt) /\ Exists(disk, cur)
           THEN /\ loc' = [loc EXCEPT ![r].arb =
                              [both |-> TRUE, S |-> disk[cur].size, C |-> disk[alt].size,
                               pick |-> PicksChallenger(disk[alt].size, disk[cur].size),
                               ran |-> TRUE]]
                /\ Goto(r, "arb_rm")
           ELSE /\ loc' = [loc EXCEPT ![r].arb = [NoArb EXCEPT !.ran = TRUE],
                                      ![r].outp = cur]
                /\ Goto(r, "finish")
    /\ UNCHANGED <<disk, job, resp, reply>>
\* The arbitration without the removal of the loser.
ArbKeepBoth(d, pick, cur, alt) == d

\* The directory after the winner is chosen: the other file is removed.
ArbKeep(d, pick, cur, alt) == RemoveFile(d, IF pick THEN cur ELSE alt)

\* "try: os.remove(loser) except: pass; return winner".
ArbRemove(r) ==
    /\ pc[r] = "arb_rm"
    /\ disk' = ArbKeep(disk, loc[r].arb.pick, loc[r].cur, loc[r].dest)
    /\ loc' = [loc EXCEPT ![r].outp = IF loc[r].arb.pick THEN loc[r].dest ELSE loc[r].cur]
    /\ Goto(r, "finish")
    /\ UNCHANGED <<job, resp, reply>>

\* ------------------------------------------- other formats, and no optimize
\* "Best effort re-save": im.save(out_path, optimize=True), format by name.
Resave(r) ==
    /\ AtBranch(r, "other")
    /\ IF Readable(disk, In(r))
       THEN /\ \E s \in Sizes :
                 disk' = WriteFile(disk, loc[r].outp,
                            Encoded(disk[In(r)], "resave", FmtOfExt(Uf(r).ext), s,
                                    disk[In(r)].exif))
            /\ Goto(r, "finish")
            /\ UNCHANGED <<job, loc, resp, reply>>
       ELSE Raise(r)

\* The file the optimize=false branch saves: orientation applied, then saved
\* as JPEG (RGB, no exif passed), PNG, or by the name's extension.
PlainCopy(c, ext, size) ==
    LET t == Transposed(c)
    IN  Encoded(t, "plain", FmtOfExt(ext), size,
                IF Family(Lower(ext)) = "JPEG" THEN "none" ELSE t.exif)

PlainSave(r) ==
    /\ AtBranch(r, "plain")
    /\ IF Readable(disk, In(r))
       THEN /\ \E s \in Sizes :
                 disk' = WriteFile(disk, loc[r].outp, PlainCopy(disk[In(r)], Uf(r).ext, s))
            /\ Goto(r, "finish")
            /\ UNCHANGED <<job, loc, resp, reply>>
       ELSE Raise(r)

\* ----------------------------------------------------- the result record
\* image_to_base64(image, "JPEG"): the data URI's media type.
ImageToBase64(fmt) ==
    IF fmt = "JPEG" THEN "data:image/jpeg;base64," ELSE "data:image/other;base64,"
\* The preview rendered whatever the optimize flag.
PreviewAlways(optimize) == ImageToBase64("JPEG")

\* "Base64 preview only when not optimizing".
Preview(optimize) == IF optimize THEN "" ELSE ImageToBase64("JPEG")

\* The dict appended to resp.  "src" is not a field of the response: it
\* records whose upload the measured artifact holds.
Result(r, art) ==
    [filename |-> [stem |-> loc[r].outp.stem, ext |-> loc[r].outp.ext],
     original_size |-> loc[r].original_size, optimized_size |-> art.size,
     original_width |-> loc[r].orig_w, original_height |-> loc[r].orig_h,
     new_width |-> loc[r].target_w, new_height |-> loc[r].target_h,
     resized_image_data |-> Preview(Opt(r).optimize),
     src |-> art.by]

\* os.path.getsize(out_path), the preview (which opens out_path) and
\* resp.append(...).  A missing out_path raises.
Finish(r) ==
    /\ pc[r] = "finish"
    /\ IF Exists(disk, loc[r].outp) /\ (Opt(r).optimize \/ Readable(disk, loc[r].outp))
       THEN /\ resp' = [resp EXCEPT ![r] = Append(@, Result(r, disk[loc[r].outp]))]
            /\ Goto(r, "cleanup")
            /\ UNCHANGED <<disk, job, loc, reply>>
       ELSE Raise(r)
\* The cleanup removing out_path in place of in_path.
CleanupOutput(r) ==
    /\ pc[r] = "cleanup"
    /\ disk' = RemoveFile(disk, loc[r].outp)
    /\ loc' = [loc EXCEPT ![r] = [Loc0 EXCEPT !.i = loc[r].i + 1]]
    /\ Goto(r, "loop")
    /\ UNCHANGED <<job, resp, reply>>

\* "cleanup input copy": os.remove(in_path), errors ignored; next file.
Cleanup(r) ==
    /\ pc[r] = "cleanup"
    /\ disk' = RemoveFile(disk, In(r))
    /\ loc' = [loc EXCEPT ![r] = [Loc0 EXCEPT !.i = loc[r].i + 1]]
    /\ Goto(r, "loop")
    /\ UNCHANGED <<job, resp, reply>>

\* -------------------------------------------------------------------- Next
Next ==
    \/ \E r \in DOMAIN pc : Receive(r)
    \/ \E r \in DOMAIN pc : Reject(r)
    \/ \E r \in DOMAIN pc : Stage(r)
    \/ \E r \in DOMAIN pc : ReturnOk(r)
    \/ \E r \in DOMAIN pc : Info(r)
    \/ \E r \in DOMAIN pc : Resize(r)
    \/ \E r \in DOMAIN pc : WebpOverride(r)
    \/ \E r \in DOMAIN pc : CwebpRun(r)
    \/ \E r \in DOMAIN pc : PillowWebp(r)
    \/ \E r \in DOMAIN pc : PngquantRun(r)
    \/ \E r \in DOMAIN pc : OxipngTmp(r)
    \/ \E r \in DOMAIN pc : MoveTmp(r)
    \/ \E r \in DOMAIN pc : LosslessCopy(r)
    \/ \E r \in DOMAIN pc : OxipngOut(r)
    \/ \E r \in DOMAIN pc : PillowQuantize(r)
    \/ \E r \in DOMAIN pc : MozPre(r)
    \/ \E r \in DOMAIN pc : MozRun(r)
    \/ \E r \in DOMAIN pc : MozRm(r)
    \/ \E r \in DOMAIN pc : PillowJpeg(r)
    \/ \E r \in DOMAIN pc : ArbCompare(r)
    \/ \E r \in DOMAIN pc : ArbRemove(r)
    \/ \E r \in DOMAIN pc : Resave(r)
    \/ \E r \in DOMAIN pc : PlainSave(r)
    \/ \E r \in DOMAIN pc : Finish(r)
    \/ \E r \in DOMAIN pc : Cleanup(r)

\* One request, run alone on an empty data directory.
Spec == Init /\ [][Next]_vars

\* Two requests in flight at once, as under app.run(threaded=True): each
\* uploads one file; the options cover every branch of the handler.
ConcOptions ==
    { o \in Options :
        /\ o.height = 0
        /\ ~o.keep_meta
        /\ o.width # 0 => ~o.optimize
        /\ ~o.optimize => (o.convert_to = "" /\ ~o.autowebp)
        /\ ~(o.convert_to = "webp" /\ o.autowebp) }

ConcFiles == { f \in Files : f.ok /\ f.ext = Lower(f.ext) }

ConcJobs == [ files : { <<f>> : f \in ConcFiles }, opt : ConcOptions ]

InitConc == InitFor(Reqs, ConcJobs)

SpecConc == InitConc /\ [][Next]_vars

\* The classifier over a wider pool of names: one request, one file.  The
\* names are those secure_filename returns (the extension is taken from
\* safe_name); "" is a name without an extension.
ExtPool ==
    { ".jpg", ".jpeg", ".png", ".gif", ".tiff", ".tif", ".webp",
      ".JPG", ".Jpeg", ".PNG", ".GIF", ".TIF",
      ".bmp", ".BMP", ".svg", ".pdf", ".jpe", "" }

ClassFiles == { [stem |-> "a", ext |-> e, exif |-> "none", ok |-> TRUE] : e \in ExtPool }

ClassJobs == [ files : { <<f>> : f \in ClassFiles }, opt : ConcOptions ]

InitClassify == InitFor({"r1"}, ClassJobs)

SpecClassify == InitClassify /\ [][Next]_vars

\* The pngquant path under every quality a request can send: one request,
\* one PNG upload, optimize set, no resize, no WebP.
QualityOptions ==
    { [o EXCEPT !.quality = q] :
        o \in { x \in ConcOptions : x.optimize /\ x.convert_to = "" /\ ~x.autowebp },
        q \in 0..MaxQuality }

QualityFiles == { f \in Files : Family(Lower(f.ext)) = "PNG" }

QualityJobs == [ files : { <<f>> : f \in QualityFiles }, opt : QualityOptions ]

InitQuality == InitFor({"r1"}, QualityJobs)

NextQuality ==
    \/ \E r \in DOMAIN pc : Receive(r)
    \/ \E r \in DOMAIN pc : Stage(r)
    \/ \E r \in DOMAIN pc : ReturnOk(r)
    \/ \E r \in DOMAIN pc : Info(r)
    \/ \E r \in DOMAIN pc : PngquantRun(r)
    \/ \E r \in DOMAIN pc : OxipngTmp(r)
    \/ \E r \in DOMAIN pc : MoveTmp(r)
    \/ \E r \in DOMAIN pc : LosslessCopy(r)
    \/ \E r \in DOMAIN pc : OxipngOut(r)
    \/ \E r \in DOMAIN pc : PillowQuantize(r)
    \/ \E r \in DOMAIN pc : Finish(r)
    \/ \E r \in DOMAIN pc : Cleanup(r)

SpecQuality == InitQuality /\ [][NextQuality]_vars

\* ================================================================ claims
Running == DOMAIN pc

LastResult(r) == resp[r][Len(resp[r])]

\* The file being processed has just got its result (Finish has acted).
Assembled(r) == pc[r] = "cleanup"

\* try_webp_and_pick_smaller has returned for the file being processed.
Arbitrated(r) == pc[r] \in {"finish", "cleanup"} /\ loc[r].arb.ran

ArtifactPath(name) == [dir |-> "out", stem |-> name.stem, ext |-> name.ext, suf |-> ""]

C2_NoArtifactAfterReject ==
    \A r \in Running :
        ( /\ reply[r].code = 400
          /\ Len(job[r].files) = 2
          /\ ExtAllowed(job[r].files[1].ext)
          /\ ~ExtAllowed(job[r].files[2].ext) ) =>
            /\ reply[r].results = <<>>
            /\ \A p \in DOMAIN disk : p.dir = "out" => disk[p].by # <<r, 1>>

\* C2 as amended: such a batch ends with a 400 that carries no result, and
\* the output file that file 1's result named is still in the output
\* directory: nothing is rolled back.
C2_ArtifactStaysAfterReject ==
    \A r \in Running :
        ( /\ reply[r].code = 400
          /\ Len(job[r].files) = 2
          /\ ExtAllowed(job[r].files[1].ext)
          /\ ~ExtAllowed(job[r].files[2].ext) ) =>
            /\ reply[r].results = <<>>
            /\ Len(resp[r]) = 1
            /\ Exists(disk, ArtifactPath(resp[r][1].filename))

C2_Witness ==
    \E r \in Running :
        /\ reply[r].code = 400
        /\ Len(job[r].files) = 2
        /\ ExtAllowed(job[r].files[1].ext)
        /\ job[r].files[2].ext = ".bmp"
        /\ \E p \in DOMAIN disk : p.dir = "out" /\ disk[p].by = <<r, 1>>

\* C3 as stated: with convert_to = "webp" every result names a .webp file,
\* whatever the family and the other options, optimize included.
C3_WebpAlways ==
    \A r \in Running :
        Opt(r).convert_to = "webp" =>
            \A k \in 1..Len(resp[r]) : resp[r][k].filename.ext = ".webp"

\* C3 as amended: with convert_to = "webp" and optimize set, every result
\* names a .webp file holding WebP data, whatever the family and the other
\* options; with optimize unset convert_to is not consulted and the result
\* keeps the upload's name.
C3_WebpUnderOptimize ==
    \A r \in Running :
        Opt(r).convert_to = "webp" =>
            /\ \A k \in 1..Len(resp[r]) :
                  resp[r][k].filename.ext =
                      IF Opt(r).optimize THEN ".webp" ELSE job[r].files[k].ext
            /\ (Assembled(r) /\ Opt(r).optimize) => disk[loc[r].outp].fmt = "WEBP"

C3_Witness ==
    \E r \in Running :
        /\ Assembled(r)
        /\ Opt(r).convert_to = "webp" /\ Opt(r).optimize
        /\ Fmt(r) = "PNG"
        /\ LastResult(r).filename.ext = ".webp"

\* C4: once the strategy branch of a file has run, whatever the external
\* encoders did on the way, there is an output for the result to be built
\* from: no failed tool invocation leads to the HTTP 500 of a missing output.
C4_ToolFailureStillYieldsOutput ==
    \A r \in Running : pc[r] = "finish" => Exists(disk, loc[r].outp)

\* C5: when a request has returned (200, 400 or 500) nothing remains of its
\* intermediate files: no staged input, no ".pre.jpg", no ".tmp.png".
C5_NoIntermediateLeft ==
    (\A r \in Running : pc[r] = "done") =>
        \A p \in DOMAIN disk : p.dir = "out" /\ p.suf = ""

\* C6: two requests in flight share nothing: a request that returns 200
\* reports, for its file, an artifact made from its own upload, as it does
\* when it runs alone.
C6_Isolated ==
    \A r \in Running :
        reply[r].code = 200 =>
            \A k \in 1..Len(reply[r].results) : reply[r].results[k].src = <<r, k>>

\* C7: when try_webp_and_pick_smaller has returned, exactly one of the two
\* candidates (current JPEG output, .webp challenger) is on disk and it is
\* the one returned, whether the challenger won, lost or was never written.
C7_OneSurvivor ==
    \A r \in Running :
        (pc[r] = "finish" /\ loc[r].arb.ran) =>
            /\ loc[r].outp \in {loc[r].cur, loc[r].dest}
            /\ Exists(disk, loc[r].outp)
            /\ ~(Exists(disk, loc[r].cur) /\ Exists(disk, loc[r].dest))

C7_Witness ==
    \E r \in Running :
        /\ pc[r] = "finish" /\ loc[r].arb.ran
        /\ loc[r].arb.both /\ loc[r].arb.pick
        /\ loc[r].outp = loc[r].dest
        /\ ~Exists(disk, loc[r].cur)

\* C8: a JPEG source with EXIF, optimize set, no WebP override, ending as a
\* JPEG: the output carries EXIF exactly when keep_metadata is set, whichever
\* encoder wrote it.
C8_ExifIffKeepMeta ==
    \A r \in Running :
        ( /\ Assembled(r)
          /\ Fmt(r) = "JPEG" /\ Uf(r).exif # "none"
          /\ Opt(r).optimize /\ Opt(r).convert_to # "webp"
          /\ loc[r].outp.ext # ".webp" ) =>
            (disk[loc[r].outp].exif # "none" <=> Opt(r).keep_meta)

\* C9: every result's preview is empty when optimize is set and a JPEG data
\* URI when it is not.
C9_PreviewOnlyWithoutOptimize ==
    \A r \in Running :
        \A k \in 1..Len(resp[r]) :
            resp[r][k].resized_image_data =
                IF Opt(r).optimize THEN "" ELSE "data:image/jpeg;base64,"

C9_Witness ==
    \E r \in Running :
        /\ reply[r].code = 200
        /\ Len(reply[r].results) = 2
        /\ Opt(r).optimize
        /\ reply[r].results[1].resized_image_data = ""

\* C10: with optimize unset, the artifact's pixel dimensions and the
\* reported new_width / new_height agree, and each axis is the requested
\* value when one was requested and the source's dimension when not.
C10_PlainDimensions ==
    \A r \in Running :
        (Assembled(r) /\ ~Opt(r).optimize) =>
            LET art == disk[loc[r].outp]
                res == LastResult(r)
            IN  /\ art.w = res.new_width
                /\ art.h = res.new_height
                /\ res.new_width  = IF Opt(r).width  # 0 THEN Opt(r).width  ELSE SrcW
                /\ res.new_height = IF Opt(r).height # 0 THEN Opt(r).height ELSE SrcH


\* The family the claim gives each name of the pool, written out by hand.
C11_FamilyOf(e) ==
    CASE e \in {".jpg", ".JPG", ".jpeg", ".Jpeg"} -> "JPEG"
      [] e \in {".png", ".PNG"} -> "PNG"
      [] e \in {".gif", ".GIF", ".tiff", ".tif", ".TIF", ".webp"} -> "PASSTHROUGH"
      [] OTHER -> "REJECTED"

\* The encoders whose output ends an optimize job of each family.
C11_EncodersOf(fam) ==
    CASE fam = "JPEG" -> {"cjpeg", "pillow_jpeg"}
      [] fam = "PNG" -> {"pngquant", "copy", "pillow_quant"}
      [] fam = "PASSTHROUGH" -> {"resave"}
      [] OTHER -> {}

\* C11: the one file of a request is accepted exactly when its extension,
\* lower-cased, is one of jpg, jpeg, png, gif, tiff, tif, webp; an accepted
\* file is encoded by the JPEG chain for jpg/jpeg, the PNG chain for png and
\* the passthrough re-save for the others; a rejected file ends the request
\* with 400 and nothing of it is on disk.
C11_Classifier ==
    \A r \in Running :
        LET fam == C11_FamilyOf(job[r].files[1].ext)
            decided == pc[r] # "recv" /\ ~(pc[r] = "loop" /\ loc[r].i = 1)
        IN  /\ (decided /\ reply[r].code = 400) =>
                  /\ fam = "REJECTED"
                  /\ \A p \in DOMAIN disk : disk[p].by # <<r, 1>>
            /\ (decided /\ reply[r].code # 400) => fam # "REJECTED"
            /\ (pc[r] = "finish" /\ Branch(Opt(r), Fmt(r)) \in {"png", "jpeg", "other"}
                  /\ ~Opt(r).autowebp) =>
                  /\ Exists(disk, loc[r].outp)
                  /\ disk[loc[r].outp].enc \in C11_EncodersOf(fam)

C11_Witness ==
    \E r \in Running :
        /\ job[r].files[1].ext = ".TIF"
        /\ pc[r] = "finish" /\ Opt(r).optimize
        /\ Exists(disk, loc[r].outp)
        /\ disk[loc[r].outp].enc = "resave"

\* The request is past the encoder of a file that took the given branch.
Encoding(r, branch) ==
    /\ pc[r] \in {"webp", "png_oxi", "png_move", "png_lossless", "png_lossless_oxi",
                  "moz_run", "moz_rm", "pillow_jpeg", "arb_cmp", "arb_rm", "finish"}
    /\ Branch(Opt(r), Fmt(r)) = branch

\* C12: in the JPEG branch the in-process encoder runs only as the first call
\* when cjpeg is not there, or right after a cjpeg call that reported failure,
\* and never after one that reported success; the chain ends with exactly one
\* encoder having reported success, and the auto-WebP arbitration starts only
\* when that encoder's JPEG is at out_path.
C12_JpegChain ==
    \A r \in Running :
        Encoding(r, "jpeg") =>
            LET t == loc[r].tried
                out == loc[r].outp
            IN  /\ pc[r] = "moz_run" => t = <<>>
                /\ pc[r] = "moz_rm" => t \in {<<"cjpeg:ok">>, <<"cjpeg:fail">>}
                /\ pc[r] = "pillow_jpeg" => t = <<"cjpeg:fail">>
                /\ pc[r] \in {"webp", "arb_cmp", "arb_rm", "finish"} =>
                      t \in {<<"cjpeg:ok">>, <<"cjpeg:fail", "pillow">>, <<"pillow">>}
                /\ pc[r] = "webp" =>
                      /\ Opt(r).autowebp
                      /\ Exists(disk, out)
                      /\ disk[out].by = <<r, loc[r].i>>
                      /\ disk[out].enc = IF t = <<"cjpeg:ok">> THEN "cjpeg" ELSE "pillow_jpeg"

C12_Witness ==
    \E r \in Running :
        /\ Encoding(r, "jpeg")
        /\ pc[r] = "webp"
        /\ loc[r].tried = <<"cjpeg:fail", "pillow">>
        /\ disk[loc[r].outp].enc = "pillow_jpeg"

C14_WindowIsClamp ==
    \A r \in Running :
        (pc[r] \in {"png_oxi", "png_lossless"}) =>
            LET q == Opt(r).quality
            IN  /\ loc[r].qmin = 60
                /\ loc[r].qmax = IF q <= 60 THEN 60 ELSE IF q >= 100 THEN 100 ELSE q

\* C15: when a request returns 200, every filename in its response names a
\* file that is in the output directory and was written for the file of the
\* batch whose result carries the name.
C15_ListedArtifactsExist ==
    \A r \in Running :
        reply[r].code = 200 =>
            \A k \in 1..Len(reply[r].results) :
                LET p == ArtifactPath(reply[r].results[k].filename)
                IN  /\ Exists(disk, p)
                    /\ disk[p].by = <<r, k>>

====
